---- MODULE Spec2Model ----
(***************************************************************************)
(* A model of CustomApps/lyrics-plus/ProviderNetease.js: the catalog       *)
(* lookup (search, findLyrics) as a state machine over the two network     *)
(* requests, and the lyric extractors (getKaraoke, getSynced, getUnsynced, *)
(* getTranslation) with the line grammar, the karaoke tokenizer and the    *)
(* credit-line filter they are built from.                                 *)
(*                                                                         *)
(* A JavaScript string is a sequence of characters; a character is a       *)
(* one-character string, or "U+XXXX" (its code point) when it is not       *)
(* ASCII.                                                                  *)
(***************************************************************************)
EXTENDS Integers, Sequences, FiniteSets, TLC

VARIABLES
    pc,        \* where the findLyrics call stands
    info,      \* the Info argument of findLyrics
    resp,      \* what the search request produced
    items,     \* searchResults.result.songs
    idx,       \* position of the for-of loop of search in items
    song,      \* the value search returned
    error,     \* the value findLyrics rejected with
    requests,  \* every request handed to CosmosAsync.get, in order
    list,      \* the lyric payload findLyrics resolved with
    op,        \* the extractor the caller applied to list
    out        \* what that extractor returned

vars == <<pc, info, resp, items, idx, song, error, requests, list, op, out>>

----------------------------------------------------------------------------
(* Bounds of the model. *)

MaxItems == 2

MaxLines == 2

----------------------------------------------------------------------------
(* Characters. *)

LineTerminators == {"\n", "\r", "U+2028", "U+2029"}

WhiteSpace == {" ", "\t", "U+00A0", "U+3000"} \cup LineTerminators

Digits == <<"0", "1", "2", "3", "4", "5", "6", "7", "8", "9">>

LowerCase == <<"a", "b", "c", "d", "e", "f", "g", "h", "i", "j", "k", "l", "m",
               "n", "o", "p", "q", "r", "s", "t", "u", "v", "w", "x", "y", "z">>

UpperCase == <<"A", "B", "C", "D", "E", "F", "G", "H", "I", "J", "K", "L", "M",
               "N", "O", "P", "Q", "R", "S", "T", "U", "V", "W", "X", "Y", "Z">>

IsSpace(c) == c \in WhiteSpace

ValueOf == [c \in {Digits[d] : d \in 1..10} |-> (CHOOSE d \in 1..10 : Digits[d] = c) - 1]

IsDigit(c) == c \in DOMAIN ValueOf

DigitValue(c) == ValueOf[c]

LowerOf == [c \in {UpperCase[k] : k \in 1..26} |->
                LowerCase[CHOOSE k \in 1..26 : UpperCase[k] = c]]

UpperOf == [c \in {LowerCase[k] : k \in 1..26} |->
                UpperCase[CHOOSE k \in 1..26 : LowerCase[k] = c]]

ToLower(c) == IF c \in DOMAIN LowerOf THEN LowerOf[c] ELSE c

ToUpper(c) == IF c \in DOMAIN UpperOf THEN UpperOf[c] ELSE c

Min(S) == CHOOSE m \in S : \A n \in S : m <= n

Max(S) == CHOOSE m \in S : \A n \in S : n <= m

Abs(n) == IF n < 0 THEN -n ELSE n

(* String.prototype.trim *)
Trim(s) ==
    LET keep == {k \in 1..Len(s) : ~IsSpace(s[k])}
    IN  IF keep = {} THEN <<>> ELSE SubSeq(s, Min(keep), Max(keep))

(* s.replace(c, ""): the first occurrence of the character c removed *)
RemoveFirst(s, c) ==
    LET at == {k \in 1..Len(s) : s[k] = c}
    IN  IF at = {} THEN s
        ELSE SubSeq(s, 1, Min(at) - 1) \o SubSeq(s, Min(at) + 1, Len(s))

(* the k-th smallest element of a set of numbers *)
Nth(S, k) == CHOOSE p \in S : Cardinality({q \in S : q < p}) = k - 1

(* lyricStr.split(/\r?\n/): cut at every "\n", a "\r" right before it is
   part of the separator *)
SplitLines(s) ==
    LET breaks == {k \in 1..Len(s) : s[k] = "\n"}
        n      == Cardinality(breaks)
        from(k) == IF k = 1 THEN 1 ELSE Nth(breaks, k - 1) + 1
        to(k)   == IF k = n + 1 THEN Len(s)
                   ELSE LET b == Nth(breaks, k)
                        IN  IF b - 1 >= from(k) /\ s[b - 1] = "\r" THEN b - 2 ELSE b - 1
    IN  [k \in 1..(n + 1) |-> SubSeq(s, from(k), to(k))]

(* lyricStr.split(/\r?\n/).map(line => line.trim()) *)
TrimmedLines(s) == LET raw == SplitLines(s) IN [k \in 1..Len(raw) |-> Trim(raw[k])]

(* the value of a string of decimal digits *)
RECURSIVE DigitsValue(_)
DigitsValue(s) ==
    IF s = <<>> THEN 0
    ELSE 10 * DigitsValue(SubSeq(s, 1, Len(s) - 1)) + DigitValue(s[Len(s)])

(* the end of the longest run of digits of s that starts at k (k - 1: none) *)
DigitRunEnd(s, k) ==
    Min({e \in k..Len(s) : ~IsDigit(s[e])} \cup {Len(s) + 1}) - 1

(* parseFloat and parseInt: leading white space is skipped, then the longest
   numeric prefix is read; NaN without one.  The texts of this model carry
   no sign, decimal point or exponent, so the prefix is a run of digits
   and the two agree. *)
Number(n) == [nan |-> FALSE, val |-> n]

NaN == [nan |-> TRUE, val |-> 0]

parseFloat(s) ==
    LET from == Min({k \in 1..Len(s) : ~IsSpace(s[k])} \cup {Len(s) + 1})
        to   == DigitRunEnd(s, from)
    IN  IF to < from THEN NaN ELSE Number(DigitsValue(SubSeq(s, from, to)))

parseInt(s) == parseFloat(s)

----------------------------------------------------------------------------
(* The text utilities of Utils.js that the provider consumes. *)

(* Utils.normalize(s, foldCase): full-width punctuation is replaced by its
   ASCII form, runs of white space collapse to one space, the ends are
   trimmed, and the case is folded when asked to *)
FullWidth == {"U+FF1A", "U+FF0C"}

RECURSIVE WidthFolded(_)
WidthFolded(s) ==
    LET wide == {k \in 1..Len(s) : s[k] \in FullWidth}
        k    == Min(wide)
    IN  IF wide = {} THEN s
        ELSE SubSeq(s, 1, k - 1)
             \o <<IF s[k] = "U+FF1A" THEN ":" ELSE ",", " ">>
             \o WidthFolded(SubSeq(s, k + 1, Len(s)))

(* s.replace(/\s+/g, " "): every run of white space becomes one space *)
RECURSIVE SpacesCollapsed(_)
SpacesCollapsed(s) ==
    LET spaces == {k \in 1..Len(s) : IsSpace(s[k])}
        from   == Min(spaces)
        to     == Min({k \in from..Len(s) : ~IsSpace(s[k])} \cup {Len(s) + 1})
    IN  IF spaces = {} THEN s
        ELSE SubSeq(s, 1, from - 1) \o <<" ">> \o SpacesCollapsed(SubSeq(s, to, Len(s)))

normalize(s, foldCase) ==
    LET t == Trim(SpacesCollapsed(WidthFolded(s)))
    IN  IF foldCase THEN [k \in 1..Len(t) |-> ToLower(t[k])] ELSE t

(* Utils.capitalize: the first character in upper case *)
capitalize(s) == IF s = <<>> THEN s ELSE <<ToUpper(s[1])>> \o Tail(s)

(* Utils.containsHanCharacter, Utils.toSimplifiedChinese: U+5C08 is the
   traditional form of U+4E13 *)
HanCharacters == {"U+5C08", "U+4E13"}

containsHanCharacter(s) == \E k \in 1..Len(s) : s[k] \in HanCharacters

toSimplifiedChinese(s) ==
    [k \in 1..Len(s) |-> IF s[k] = "U+5C08" THEN "U+4E13" ELSE s[k]]

----------------------------------------------------------------------------
(* containCredits: creditInfoRegExp = ^(creditInfo.join("|")).*(:|U+FF1A),
   flag i.  A set of positions holds the lengths of the prefixes of s a
   part of the expression can have consumed. *)

SameChar(a, b) == ToLower(a) = ToLower(b)

(* . matches anything but a line terminator *)
AllDots(s, from, to) == \A k \in from..to : s[k] \notin LineTerminators

(* c *)
ThenChar(s, P, c) == {p + 1 : p \in {q \in P : q < Len(s) /\ SameChar(s[q + 1], c)}}

(* c? *)
ThenOptChar(s, P, c) == P \cup ThenChar(s, P, c)

(* \s? *)
ThenOptSpace(s, P) == P \cup {p + 1 : p \in {q \in P : q < Len(s) /\ IsSpace(s[q + 1])}}

(* \s* *)
ThenSpaces(s, P) ==
    {e \in 0..Len(s) : \E p \in P : p <= e /\ \A k \in (p + 1)..e : IsSpace(s[k])}

(* the keyword kw read at the positions from + 1 .. from + Len(kw) *)
KeywordAt(s, from, kw) ==
    /\ from + Len(kw) <= Len(s)
    /\ \A k \in 1..Len(kw) : SameChar(s[from + k], kw[k])

(* creditInfo[0]: \s?A?\s*B with the pairs (U+4F5C, U+8BCD), (U+4F5C, U+66F2),
   and \s?A\s*B? with the pairs (U+7F16, U+66F2), (U+76D1, U+5236) *)
RoleEnds(s) ==
    LET sp == ThenOptSpace(s, {0})
    IN  ThenChar(s, ThenSpaces(s, ThenOptChar(s, sp, "U+4F5C")), "U+8BCD")
        \cup ThenChar(s, ThenSpaces(s, ThenOptChar(s, sp, "U+4F5C")), "U+66F2")
        \cup ThenOptChar(s, ThenSpaces(s, ThenChar(s, sp, "U+7F16")), "U+66F2")
        \cup ThenOptChar(s, ThenSpaces(s, ThenChar(s, sp, "U+76D1")), "U+5236")

(* creditInfo[1]: .*K for each of these K *)
AnywhereKeywords == {
    <<"U+7F16", "U+5199">>, <<"U+548C", "U+97F3">>, <<"U+548C", "U+58F0">>,
    <<"U+5408", "U+58F0">>, <<"U+63D0", "U+7434">>, <<"U+5F55">>,
    <<"U+5DE5", "U+7A0B">>, <<"U+5DE5", "U+4F5C", "U+5BA4">>,
    <<"U+8BBE", "U+8BA1">>, <<"U+526A", "U+8F91">>, <<"U+5236", "U+4F5C">>,
    <<"U+53D1", "U+884C">>, <<"U+51FA", "U+54C1">>, <<"U+540E", "U+671F">>,
    <<"U+6DF7", "U+97F3">>, <<"U+7F29", "U+6DF7">>}

AnywhereEnds(s) ==
    {e \in 1..Len(s) : \E kw \in AnywhereKeywords :
        /\ Len(kw) <= e
        /\ KeywordAt(s, e - Len(kw), kw)
        /\ AllDots(s, 1, e - Len(kw))}

(* creditInfo[2] and creditInfo[3]: K for each of these K *)
LeadingKeywords == {
    <<"U+539F", "U+5531">>, <<"U+7FFB", "U+5531">>, <<"U+9898", "U+5B57">>,
    <<"U+6587", "U+6848">>, <<"U+6D77", "U+62A5">>, <<"U+53E4", "U+7B5D">>,
    <<"U+4E8C", "U+80E1">>, <<"U+94A2", "U+7434">>, <<"U+5409", "U+4ED6">>,
    <<"U+8D1D", "U+65AF">>, <<"U+7B1B", "U+5B50">>, <<"U+9F13">>,
    <<"U+5F26", "U+4E50">>,
    <<"l", "r", "c">>, <<"p", "u", "b", "l", "i", "s", "h">>,
    <<"v", "o", "c", "a", "l">>, <<"g", "u", "i", "t", "a", "r">>,
    <<"p", "r", "o", "g", "r", "a", "m">>, <<"p", "r", "o", "d", "u", "c", "e">>,
    <<"w", "r", "i", "t", "e">>, <<"m", "i", "x">>}

LeadingEnds(s) == {Len(kw) : kw \in {k \in LeadingKeywords : KeywordAt(s, 0, k)}}

Colons == {":", "U+FF1A"}

(* creditInfoRegExp.test(text): one of the alternatives at the start, then
   .* up to a colon *)
containCredits(text) ==
    LET colons == {c \in 1..Len(text) : text[c] \in Colons}
    IN  /\ colons # {}
        /\ \E p \in RoleEnds(text) \cup AnywhereEnds(text) \cup LeadingEnds(text) :
              \E c \in colons : c > p /\ AllDots(text, p + 1, c - 1)

----------------------------------------------------------------------------
(* parseTimestamp *)

(* line.match(/(\[.*?\])|([^\[\]]+)/g) from position k on: at each position
   a bracketed group up to the nearest "]", else the longest run of
   characters that are no bracket, else the position is passed over *)
RECURSIVE MatchFrom(_, _)
MatchFrom(s, k) ==
    IF k > Len(s) THEN <<>>
    ELSE LET closing == {c \in (k + 1)..Len(s) : s[c] = "]"}
             group   == /\ s[k] = "["
                        /\ closing # {}
                        /\ AllDots(s, k + 1, Min(closing) - 1)
             run     == Min({e \in k..Len(s) : s[e] \in {"[", "]"}} \cup {Len(s) + 1}) - 1
         IN  IF group
             THEN <<SubSeq(s, k, Min(closing))>> \o MatchFrom(s, Min(closing) + 1)
             ELSE IF s[k] \notin {"[", "]"}
                  THEN <<SubSeq(s, k, run)>> \o MatchFrom(s, run + 1)
                  ELSE MatchFrom(s, k + 1)

(* slice.endsWith("]") *)
EndsWithBracket(slice) == slice # <<>> /\ slice[Len(slice)] = "]"

(* the result {text} has no time: hasTime is FALSE and time is unused *)
parseTimestamp(line) ==
    LET matchResult == MatchFrom(line, 1)
        found       == {k \in 1..Len(matchResult) : ~EndsWithBracket(matchResult[k])}
        textIndex   == IF found = {} THEN 0 ELSE Min(found)
        spliced     == IF textIndex = 0 THEN matchResult
                       ELSE SubSeq(matchResult, 1, textIndex - 1)
                            \o SubSeq(matchResult, textIndex + 1, Len(matchResult))
        text        == IF textIndex = 0 THEN <<>>
                       ELSE capitalize(normalize(matchResult[textIndex], FALSE))
    IN  IF Len(matchResult) <= 1
        THEN [hasTime |-> FALSE, time |-> <<>>, text |-> line]
        ELSE [hasTime |-> TRUE,
              time    |-> RemoveFirst(RemoveFirst(spliced[1], "["), "]"),
              text    |-> text]

(* !time, for the time of a parseTimestamp result *)
NoTime(parsed) == ~parsed.hasTime \/ parsed.time = <<>>

(* const [key, value] = time.split(sep): key is what precedes the first sep,
   value what lies between the first and the second *)
SplitKey(time, sep) ==
    LET at == {k \in 1..Len(time) : time[k] = sep}
    IN  IF at = {} THEN time ELSE SubSeq(time, 1, Min(at) - 1)

(* parseFloat(value): value is undefined, and the result NaN, without a sep *)
SplitValueNumber(time, sep) ==
    LET at    == {k \in 1..Len(time) : time[k] = sep}
        after == {k \in at : k > Min(at)}
    IN  IF at = {} THEN NaN
        ELSE parseFloat(SubSeq(time, Min(at) + 1,
                               IF after = {} THEN Len(time) ELSE Min(after) - 1))

----------------------------------------------------------------------------
(* breakdownLine *)

(* /\(\d+,(\d+)\)/ matched at position k: whether it matches, where the
   match ends, and the two runs of digits *)
MarkerAt(s, k) ==
    LET e1 == DigitRunEnd(s, k + 1)
        e2 == DigitRunEnd(s, e1 + 2)
        ok == /\ k <= Len(s) /\ s[k] = "("
              /\ e1 >= k + 1
              /\ e1 + 1 <= Len(s) /\ s[e1 + 1] = ","
              /\ e2 >= e1 + 2
              /\ e2 + 1 <= Len(s) /\ s[e2 + 1] = ")"
    IN  [ok     |-> ok,
         end    |-> IF ok THEN e2 + 1 ELSE 0,
         first  |-> IF ok THEN SubSeq(s, k + 1, e1) ELSE <<>>,
         second |-> IF ok THEN SubSeq(s, e1 + 2, e2) ELSE <<>>]

(* text.split(/\(\d+,(\d+)\)/g): the pieces between the matches, each match
   replaced by its capture *)
(* a tokenizer that captures the first field of the marker *)
RECURSIVE ComponentsFromFirst(_, _)
ComponentsFromFirst(s, k) ==
    LET matches == {p \in k..Len(s) : MarkerAt(s, p).ok}
        m       == MarkerAt(s, Min(matches))
    IN  IF matches = {} THEN <<SubSeq(s, k, Len(s))>>
        ELSE <<SubSeq(s, k, Min(matches) - 1), m.first>> \o ComponentsFromFirst(s, m.end + 1)

RECURSIVE ComponentsFrom(_, _)
ComponentsFrom(s, k) ==
    LET matches == {p \in k..Len(s) : MarkerAt(s, p).ok}
        m       == MarkerAt(s, Min(matches))
    IN  IF matches = {} THEN <<SubSeq(s, k, Len(s))>>
        ELSE <<SubSeq(s, k, Min(matches) - 1), m.second>> \o ComponentsFrom(s, m.end + 1)

RECURSIVE Pushed(_, _)
Pushed(components, i) ==
    IF i > Len(components) THEN <<>>
    ELSE IF components[i + 1] = <<" ">>
         THEN Pushed(components, i + 2)
         ELSE <<[word |-> components[i + 1] \o <<" ">>,
                 time |-> parseInt(components[i]).val]>>
              \o Pushed(components, i + 2)

(* components[i] is components[i - 1] of the source, whose loop starts at 1 *)
breakdownLine(text) == Pushed(ComponentsFrom(text, 1), 2)

----------------------------------------------------------------------------
(* The extractors.  The callback of map returns <<>> for null and <<e>> for
   an entry e, so that .filter(a => a) is the concatenation of the results. *)

RECURSIVE Filtered(_)
Filtered(mapped) ==
    IF mapped = <<>> THEN <<>> ELSE Head(mapped) \o Filtered(Tail(mapped))

(* lines.map(Callback), as the sequence of the results *)
Mapped(Callback(_), lines) == [k \in 1..Len(lines) |-> Callback(lines[k])]

Null == [isNull |-> TRUE, lines |-> <<>>]

Result(entries) == [isNull |-> FALSE, lines |-> entries]

(* list?.lrc?.lyric and the like: absent, or a string *)
Absent == [has |-> FALSE, lyric |-> <<>>]

Present(lyricStr) == [has |-> TRUE, lyric |-> lyricStr]

(* !lyricStr *)
NoLyricStr(block) == ~block.has \/ block.lyric = <<>>

(* "U+7EAF U+97F3 U+4E50, U+8BF7 U+6B23 U+8D4F" *)
NoLyricsText == <<"U+7EAF", "U+97F3", "U+4E50", ",", " ", "U+8BF7", "U+6B23", "U+8D4F">>

(* a callback that lets credit lines through *)
KaraokeLineUnfiltered(line) ==
    LET parsed == parseTimestamp(line)
        start  == parseFloat(SplitKey(parsed.time, ","))
        durr   == SplitValueNumber(parsed.time, ",")
    IN  IF NoTime(parsed) \/ parsed.text = <<>> THEN <<>>
        ELSE IF ~start.nan /\ ~durr.nan
             THEN <<[startTime |-> start.val, text |-> breakdownLine(parsed.text)]>>
             ELSE <<>>

KaraokeLine(line) ==
    LET parsed == parseTimestamp(line)
        start  == parseFloat(SplitKey(parsed.time, ","))
        durr   == SplitValueNumber(parsed.time, ",")
    IN  IF NoTime(parsed) \/ parsed.text = <<>> THEN <<>>
        ELSE IF ~start.nan /\ ~durr.nan /\ ~containCredits(parsed.text)
             THEN <<[startTime |-> start.val, text |-> breakdownLine(parsed.text)]>>
             ELSE <<>>

getKaraoke(payload) ==
    IF NoLyricStr(payload.klyric) THEN Null
    ELSE LET karaoke == Filtered(Mapped(KaraokeLine, TrimmedLines(payload.klyric.lyric)))
         IN  IF Len(karaoke) = 0 THEN Null ELSE Result(karaoke)

(* the result of the callback of getSynced; its assignment to noLyrics is
   SyncedNoLyrics *)
SyncedLine(line) ==
    LET parsed == parseTimestamp(line)
        min    == parseFloat(SplitKey(parsed.time, ":"))
        sec    == SplitValueNumber(parsed.time, ":")
    IN  IF NoTime(parsed) \/ parsed.text = <<>> THEN <<>>
        ELSE IF ~min.nan /\ ~sec.nan /\ ~containCredits(parsed.text)
             THEN <<[startTime |-> (min.val * 60 + sec.val) * 1000,
                     text      |-> parsed.text]>>
             ELSE <<>>

TranslationLine(line) ==
    LET parsed == parseTimestamp(line)
        min    == parseFloat(SplitKey(parsed.time, ":"))
        sec    == SplitValueNumber(parsed.time, ":")
    IN  IF NoTime(parsed) \/ parsed.text = <<>> THEN <<>>
        ELSE IF ~min.nan /\ ~sec.nan /\ ~containCredits(parsed.text)
             THEN <<[startTime |-> (min.val * 60 + sec.val) * 1000,
                     text      |-> parsed.text]>>
             ELSE <<>>

(* a noLyrics that is set only after the callback's test of time and text *)
SyncedNoLyricsIfTimed(lines) ==
    \E k \in 1..Len(lines) :
        /\ ~NoTime(parseTimestamp(lines[k]))
        /\ parseTimestamp(lines[k]).text = NoLyricsText

(* noLyrics once the map is over: set by a line whose text is the notice *)
SyncedNoLyrics(lines) ==
    \E k \in 1..Len(lines) : parseTimestamp(lines[k]).text = NoLyricsText

getSynced(payload) ==
    IF NoLyricStr(payload.lrc) THEN Null
    ELSE LET lines  == TrimmedLines(payload.lrc.lyric)
             lyrics == Filtered(Mapped(SyncedLine, lines))
         IN  IF Len(lyrics) = 0 \/ SyncedNoLyrics(lines) THEN Null ELSE Result(lyrics)

(* a getTranslation that returns the sequence even when it is empty *)
getTranslationUnchecked(payload) ==
    IF NoLyricStr(payload.tlyric) THEN Null
    ELSE Result(Filtered(Mapped(TranslationLine, TrimmedLines(payload.tlyric.lyric))))

getTranslation(payload) ==
    IF NoLyricStr(payload.tlyric) THEN Null
    ELSE LET translation == Filtered(Mapped(TranslationLine, TrimmedLines(payload.tlyric.lyric)))
         IN  IF Len(translation) = 0 THEN Null ELSE Result(translation)

UnsyncedLine(line) ==
    LET parsed == parseTimestamp(line)
    IN  IF parsed.text = <<>> \/ containCredits(parsed.text) THEN <<>> ELSE <<parsed>>

UnsyncedNoLyrics(lines) ==
    \E k \in 1..Len(lines) : parseTimestamp(lines[k]).text = NoLyricsText

getUnsynced(payload) ==
    IF NoLyricStr(payload.lrc) THEN Null
    ELSE LET lines  == TrimmedLines(payload.lrc.lyric)
             lyrics == Filtered(Mapped(UnsyncedLine, lines))
         IN  IF Len(lyrics) = 0 \/ UnsyncedNoLyrics(lines) THEN Null ELSE Result(lyrics)

----------------------------------------------------------------------------
(* The inputs. *)

(* info.album and info.duration: title and artist only make up the search
   URL *)
Infos ==
    {[album |-> a, duration |-> d] :
        a \in {<<"A", "b">>, <<"U+5C08">>}, d \in {180000, 181000}}

NoInfo == [album |-> <<>>, duration |-> 0]

(* a song of the search response but for its id *)
SongData ==
    {[dt |-> d, al |-> [name |-> a]] :
        d \in {179000, 180999, 182000},
        a \in {<<"a", "b", " ">>, <<"U+4E13">>, <<"c">>}}

NoSong == [id |-> 0, dt |-> 0, al |-> [name |-> <<>>]]

(* result.songs: id tells the songs of a response apart, so it is the
   position in the response *)
SongLists ==
    UNION {{[k \in 1..n |-> [id |-> k, dt |-> data[k].dt, al |-> data[k].al]] :
                data \in [1..n -> SongData]} : n \in 0..MaxItems}

(* the raw lines lyric blocks are made of *)
RawLines == {
    (* a lyric line, the line break of the block being CR LF *)
    <<"[", "0", "0", ":", "0", "1", "]", "l", "a", "\r">>,
    (* a metadata tag alone *)
    <<"[", "a", "r", ":", "x", "]">>,
    (* text alone *)
    <<"l", "a">>,
    (* two timestamps alone *)
    <<"[", "0", "0", ":", "0", "1", "]", "[", "0", "0", ":", "0", "2", "]">>,
    (* the instrumental notice with a full-width comma, timestamped *)
    <<"[", "0", "0", ":", "0", "4", "]", "U+7EAF", "U+97F3", "U+4E50", "U+FF0C", "U+8BF7", "U+6B23", "U+8D4F">>,
    (* the instrumental notice alone *)
    <<"U+7EAF", "U+97F3", "U+4E50", ",", " ", "U+8BF7", "U+6B23", "U+8D4F">>,
    (* a credit line, timestamped, with white space around it *)
    <<" ", "[", "0", "0", ":", "0", "5", "]", "U+4F5C", "U+8BCD", "U+FF1A", "x", " ">>,
    (* a credit line alone, in upper case *)
    <<"M", "i", "x", ":", "x">>,
    (* a karaoke line *)
    <<"[", "1", "2", ",", "3", "0", "]", "(", "0", ",", "5", "0", "8", ")", "l", "a", "(", "0", ",", "1", ")", " ", "(", "0", ",", "1", "5", "1", ")", "l", "a", "(", "0", ",", "1", ")">>,
    (* a karaoke credit line *)
    <<"[", "1", "2", ",", "3", "0", "]", "m", "i", "x", ":", "x">>}

RECURSIVE Joined(_)
Joined(ls) ==
    IF ls = <<>> THEN <<>>
    ELSE IF Len(ls) = 1 THEN ls[1]
    ELSE ls[1] \o <<"\n">> \o Joined(Tail(ls))

LyricStrings == {Joined(ls) : ls \in UNION {[1..n -> RawLines] : n \in 0..MaxLines}}

NoPayload == [lrc |-> Absent, klyric |-> Absent, tlyric |-> Absent]

Payloads ==
    {NoPayload}
    \cup {[NoPayload EXCEPT !.lrc = Present(b)] : b \in LyricStrings}
    \cup {[NoPayload EXCEPT !.klyric = Present(b)] : b \in LyricStrings}
    \cup {[NoPayload EXCEPT !.tlyric = Present(b)] : b \in LyricStrings}

----------------------------------------------------------------------------
(* search and findLyrics *)

Init ==
    /\ pc = "idle"
    /\ info = NoInfo
    /\ resp = "none"
    /\ items = <<>>
    /\ idx = 0
    /\ song = NoSong
    /\ error = "none"
    /\ requests = <<>>
    /\ list = NoPayload
    /\ op = "none"
    /\ out = Null

(* a test that takes a difference of 1000 ms too *)
MatchesWithin(i, s) ==
    \/ normalize(s.al.name, TRUE)
         = (IF containsHanCharacter(normalize(i.album, TRUE))
            THEN toSimplifiedChinese(normalize(i.album, TRUE))
            ELSE normalize(i.album, TRUE))
    \/ Abs(i.duration - s.dt) <= 1000

(* the test of the loop of search *)
Matches(i, s) ==
    LET expectedDuration  == i.duration
        actualDuration    == s.dt
        neAlbumName       == normalize(i.album, TRUE)
        expectedAlbumName == IF containsHanCharacter(neAlbumName)
                             THEN toSimplifiedChinese(neAlbumName)
                             ELSE neAlbumName
        actualAlbumName   == normalize(s.al.name, TRUE)
    IN  \/ actualAlbumName = expectedAlbumName
        \/ Abs(expectedDuration - actualDuration) < 1000

(* findLyrics(info) calls search(info), which sends the search request *)
FindLyrics ==
    /\ pc = "idle"
    /\ \E i \in Infos : info' = i
    /\ requests' = Append(requests, [kind |-> "search", id |-> 0])
    /\ pc' = "searching"
    /\ UNCHANGED <<resp, items, idx, song, error, list, op, out>>

(* the search request fails: nothing catches the rejection *)
SearchFails ==
    /\ pc = "searching"
    /\ resp' = "failed"
    /\ error' = "request failed"
    /\ pc' = "rejected"
    /\ UNCHANGED <<info, items, idx, song, requests, list, op, out>>

(* the response has no result.songs: the for-of throws a TypeError *)
SearchWithoutSongs ==
    /\ pc = "searching"
    /\ resp' = "no songs"
    /\ error' = "TypeError"
    /\ pc' = "rejected"
    /\ UNCHANGED <<info, items, idx, song, requests, list, op, out>>

SearchResponds ==
    /\ pc = "searching"
    /\ resp' = "songs"
    /\ \E its \in SongLists : items' = its
    /\ idx' = 1
    /\ pc' = "matching"
    /\ UNCHANGED <<info, song, error, requests, list, op, out>>

(* a loop that returns the last song that matches *)
SearchReturnsLast ==
    /\ pc = "matching"
    /\ idx <= Len(items)
    /\ Matches(info, items[idx])
    /\ song' = items[Max({k \in idx..Len(items) : Matches(info, items[k])})]
    /\ pc' = "found"
    /\ UNCHANGED <<info, resp, items, idx, error, requests, list, op, out>>

(* one turn of the loop: return song *)
SearchReturns ==
    /\ pc = "matching"
    /\ idx <= Len(items)
    /\ Matches(info, items[idx])
    /\ song' = items[idx]
    /\ pc' = "found"
    /\ UNCHANGED <<info, resp, items, idx, error, requests, list, op, out>>

(* one turn of the loop: the next song *)
SearchSkips ==
    /\ pc = "matching"
    /\ idx <= Len(items)
    /\ ~Matches(info, items[idx])
    /\ idx' = idx + 1
    /\ UNCHANGED <<pc, info, resp, items, song, error, requests, list, op, out>>

(* the loop is over: throw "Cannot find track" *)
SearchThrows ==
    /\ pc = "matching"
    /\ idx > Len(items)
    /\ error' = "Cannot find track"
    /\ pc' = "rejected"
    /\ UNCHANGED <<info, resp, items, idx, song, requests, list, op, out>>

(* a request for the first song of the response *)
LyricRequestForFirst ==
    /\ pc = "found"
    /\ requests' = Append(requests, [kind |-> "lyric", id |-> items[1].id])
    /\ pc' = "fetching"
    /\ items' = <<>>
    /\ idx' = 0
    /\ UNCHANGED <<info, resp, song, error, list, op, out>>

(* songID = searchResponse.id; CosmosAsync.get(lyricURL + songID); the
   locals of search are gone *)
LyricRequest ==
    /\ pc = "found"
    /\ requests' = Append(requests, [kind |-> "lyric", id |-> song.id])
    /\ pc' = "fetching"
    /\ items' = <<>>
    /\ idx' = 0
    /\ UNCHANGED <<info, resp, song, error, list, op, out>>

LyricFails ==
    /\ pc = "fetching"
    /\ error' = "request failed"
    /\ pc' = "rejected"
    /\ UNCHANGED <<info, resp, items, idx, song, requests, list, op, out>>

(* findLyrics resolves with the payload; its locals are gone *)
LyricResponds ==
    /\ pc = "fetching"
    /\ \E payload \in Payloads : list' = payload
    /\ pc' = "resolved"
    /\ info' = NoInfo
    /\ song' = NoSong
    /\ UNCHANGED <<resp, items, idx, error, requests, op, out>>

----------------------------------------------------------------------------
(* The caller applies one extractor to the payload. *)

Extract(name, result) ==
    /\ pc = "resolved"
    /\ op = "none"
    /\ op' = name
    /\ out' = result
    /\ UNCHANGED <<pc, info, resp, items, idx, song, error, requests, list>>

GetKaraoke == Extract("getKaraoke", getKaraoke(list))

GetSynced == Extract("getSynced", getSynced(list))

GetUnsynced == Extract("getUnsynced", getUnsynced(list))

GetTranslation == Extract("getTranslation", getTranslation(list))

Next ==
    \/ FindLyrics
    \/ SearchFails
    \/ SearchWithoutSongs
    \/ SearchResponds
    \/ SearchReturns
    \/ SearchSkips
    \/ SearchThrows
    \/ LyricRequest
    \/ LyricFails
    \/ LyricResponds
    \/ GetKaraoke
    \/ GetSynced
    \/ GetUnsynced
    \/ GetTranslation

Spec == Init /\ [][Next]_vars

----------------------------------------------------------------------------
(* What the properties below speak of. *)

(* the acceptance rule: the normalized album names are equal, the album of
   the query in its simplified form, or the durations differ by less than
   1000 ms *)
Accepted(i, s) ==
    LET queryAlbum == normalize(i.album, TRUE)
        simplified == IF containsHanCharacter(queryAlbum)
                      THEN toSimplifiedChinese(queryAlbum) ELSE queryAlbum
        difference == IF i.duration >= s.dt THEN i.duration - s.dt ELSE s.dt - i.duration
    IN  simplified = normalize(s.al.name, TRUE) \/ difference < 1000

(* search is over: it returned, or findLyrics rejected before any lyric
   request *)
SearchOver == pc = "found" \/ (pc = "rejected" /\ Len(requests) = 1)

(* the trimmed lines of a block of the payload *)
LinesOf(block) == IF NoLyricStr(block) THEN <<>> ELSE TrimmedLines(block.lyric)

(* the text a line parses to *)
TextOf(line) == parseTimestamp(line).text

HasNotice(block) ==
    \E k \in 1..Len(LinesOf(block)) : TextOf(LinesOf(block)[k]) = NoLyricsText

(* the block without the lines that Dropped holds of *)
BlockWithout(Dropped(_), block) ==
    IF ~block.has THEN block
    ELSE Present(Joined(SelectSeq(TrimmedLines(block.lyric), LAMBDA l : ~Dropped(l))))

PayloadWithout(Dropped(_), payload) ==
    [lrc    |-> BlockWithout(Dropped, payload.lrc),
     klyric |-> BlockWithout(Dropped, payload.klyric),
     tlyric |-> BlockWithout(Dropped, payload.tlyric)]

(* what the extractor the caller applied returns for a payload *)
Extracted(payload) ==
    CASE op = "getKaraoke"     -> getKaraoke(payload)
      [] op = "getSynced"      -> getSynced(payload)
      [] op = "getUnsynced"    -> getUnsynced(payload)
      [] op = "getTranslation" -> getTranslation(payload)

(* the block the extractor the caller applied reads *)
BlockRead ==
    CASE op = "getKaraoke"     -> list.klyric
      [] op = "getSynced"      -> list.lrc
      [] op = "getUnsynced"    -> list.lrc
      [] op = "getTranslation" -> list.tlyric

(* a line that is one bracketed group and nothing else *)
OneGroup(line) ==
    /\ Len(line) >= 2
    /\ line[1] = "[" /\ line[Len(line)] = "]"
    /\ \A k \in 2..(Len(line) - 1) : line[k] \notin {"[", "]"}

RECURSIVE Concatenated(_)
Concatenated(slices) ==
    IF slices = <<>> THEN <<>> ELSE Head(slices) \o Concatenated(Tail(slices))

(* a line made of bracketed groups only *)
OnlyGroups(line) ==
    LET groups == MatchFrom(line, 1)
    IN  /\ line # <<>>
        /\ \A k \in 1..Len(groups) : EndsWithBracket(groups[k])
        /\ Concatenated(groups) = line

(* the markers of a karaoke text: where they start, the text that trails
   each up to the next marker, and those the tokenizer does not skip *)
MarkerStarts(text) == {p \in 1..Len(text) : MarkerAt(text, p).ok}

Trailing(text, p) ==
    LET later == {q \in MarkerStarts(text) : q > p}
    IN  SubSeq(text, MarkerAt(text, p).end + 1,
               IF later = {} THEN Len(text) ELSE Min(later) - 1)

Emitting(text) == {p \in MarkerStarts(text) : Trailing(text, p) # <<" ">>}

(* the tokens of text are those of its emitting markers, in order, each
   with the given field of its marker as its time *)
TokensCarry(text, tokens, Field(_)) ==
    /\ Len(tokens) = Cardinality(Emitting(text))
    /\ \A j \in 1..Len(tokens) :
          LET p == Nth(Emitting(text), j)
          IN  /\ tokens[j].word = Trailing(text, p) \o <<" ">>
              /\ tokens[j].time = DigitsValue(Field(MarkerAt(text, p)))

FirstField(m) == m.first

SecondField(m) == m.second

----------------------------------------------------------------------------
(* The properties. *)

(* C1: when search returns a song, it is the song at the lowest position of
   the response that satisfies the acceptance rule; no song before it
   satisfies the rule, whatever the songs after it do. *)
C1_FirstAcceptedIsReturned ==
    pc = "found" =>
        \E k \in 1..Len(items) :
            /\ song = items[k]
            /\ Accepted(info, items[k])
            /\ \A j \in 1..(k - 1) : ~Accepted(info, items[j])

(* C1, its case: search returned a song and a later song of the response
   satisfies the rule too *)
C1_Witness ==
    /\ pc = "found"
    /\ \E k \in 1..Len(items) : k > song.id /\ Accepted(info, items[k])

(* C2: search fails with "Cannot find track" exactly when the response
   carries a sequence of songs none of which satisfies the acceptance
   rule. *)
C2_NotFoundIffNoneAccepted ==
    SearchOver =>
        (error = "Cannot find track"
            <=> (resp = "songs" /\ \A k \in 1..Len(items) : ~Accepted(info, items[k])))

(* C2, its case: not found, with a song whose duration differs by exactly
   1000 ms *)
C2_Witness ==
    /\ SearchOver
    /\ error = "Cannot find track"
    /\ \E k \in 1..Len(items) : Abs(info.duration - items[k].dt) = 1000

(* C3: when a line of the lrc block parses to the instrumental notice,
   getSynced and getUnsynced return null; getTranslation and getKaraoke
   return null only when no line of their block yields an entry, notice or
   not. *)
C3_NoticeForcesNull ==
    /\ (op \in {"getSynced", "getUnsynced"} /\ HasNotice(list.lrc)) => out.isNull
    /\ op = "getTranslation" =>
          (out.isNull <=> \A k \in 1..Len(LinesOf(list.tlyric)) :
                              TranslationLine(LinesOf(list.tlyric)[k]) = <<>>)
    /\ op = "getKaraoke" =>
          (out.isNull <=> \A k \in 1..Len(LinesOf(list.klyric)) :
                              KaraokeLine(LinesOf(list.klyric)[k]) = <<>>)

(* C3, its case: getSynced on a block with the notice on a line without a
   timestamp and another line that parses to an entry *)
C3_Witness ==
    /\ op = "getSynced"
    /\ out.isNull
    /\ \E k \in 1..Len(LinesOf(list.lrc)) :
          /\ NoTime(parseTimestamp(LinesOf(list.lrc)[k]))
          /\ TextOf(LinesOf(list.lrc)[k]) = NoLyricsText
    /\ \E k \in 1..Len(LinesOf(list.lrc)) : SyncedLine(LinesOf(list.lrc)[k]) # <<>>

(* C4: an extractor returns null or a sequence with at least one element,
   never an empty sequence. *)
C4_NeverEmpty == op # "none" => (out.isNull \/ Len(out.lines) >= 1)

(* C4, its case: a block that is there and not empty, every line of which
   is filtered out *)
C4_Witness ==
    /\ op = "getKaraoke"
    /\ ~NoLyricStr(list.klyric)
    /\ \A k \in 1..Len(LinesOf(list.klyric)) : KaraokeLine(LinesOf(list.klyric)[k]) = <<>>
    /\ out.isNull

(* a raw line whose parsed text satisfies the credit-line filter *)
CreditLine(line) == containCredits(TextOf(line))

(* C5: no entry of an extractor's result comes from a line whose parsed
   text satisfies containCredits: the result is the result for the block
   without those lines, and no text in it satisfies the filter. *)
C5_CreditLinesDropped ==
    op # "none" =>
        /\ out = Extracted(PayloadWithout(CreditLine, list))
        /\ op # "getKaraoke" =>
              \A k \in 1..Len(out.lines) : ~containCredits(out.lines[k].text)

(* C5, its case: a result that is not null, for a block with a credit line
   that has a well-formed timestamp *)
C5_Witness ==
    /\ op = "getSynced"
    /\ ~out.isNull
    /\ \E k \in 1..Len(LinesOf(list.lrc)) :
          LET parsed == parseTimestamp(LinesOf(list.lrc)[k])
          IN  /\ containCredits(parsed.text)
              /\ ~parseFloat(SplitKey(parsed.time, ":")).nan
              /\ ~SplitValueNumber(parsed.time, ":").nan

(* C6: for a line that is one bracketed group and nothing else,
   parseTimestamp returns the content between the brackets as the time,
   and no text. *)
C6_OneGroupIsTime ==
    op # "none" =>
        \A k \in 1..Len(LinesOf(BlockRead)) :
            LET line == LinesOf(BlockRead)[k]
            IN  OneGroup(line) =>
                    parseTimestamp(line) = [hasTime |-> TRUE,
                                            time    |-> SubSeq(line, 2, Len(line) - 1),
                                            text    |-> <<>>]

(* the karaoke lines getKaraoke makes entries of *)
KaraokeTexts ==
    {TextOf(LinesOf(list.klyric)[k]) :
        k \in {j \in 1..Len(LinesOf(list.klyric)) : KaraokeLine(LinesOf(list.klyric)[j]) # <<>>}}

(* C7 as stated: every token of breakdownLine carries the first numeric
   field of the marker that precedes its word. *)
C7_TokenCarriesFirstField ==
    op = "getKaraoke" =>
        \A text \in KaraokeTexts : TokensCarry(text, breakdownLine(text), FirstField)

(* C7 as amended: every token of breakdownLine carries the second numeric
   field of the marker that precedes its word. *)
C7_TokenCarriesSecondField ==
    op = "getKaraoke" =>
        \A text \in KaraokeTexts : TokensCarry(text, breakdownLine(text), SecondField)

(* C7, its case: getKaraoke returned a line with the tokens of markers
   whose two fields differ, (0,508) (0,151) (0,1) *)
C7_Witness ==
    /\ op = "getKaraoke"
    /\ ~out.isNull
    /\ \E k \in 1..Len(out.lines) :
          /\ Len(out.lines[k].text) = 3
          /\ out.lines[k].text[1].time = 508
          /\ out.lines[k].text[2].time = 151

(* C8: no token of breakdownLine has a word that is empty or made of
   spaces only. *)
C8_NoBlankWord ==
    (op = "getKaraoke" /\ ~out.isNull) =>
        \A k \in 1..Len(out.lines) :
            \A j \in 1..Len(out.lines[k].text) :
                \E c \in 1..Len(out.lines[k].text[j].word) :
                    out.lines[k].text[j].word[c] # " "

(* C9: a line made of bracketed groups only contributes nothing to the
   result of an extractor, which is the result for the block without these
   lines; getUnsynced returns no entry whose text is a bracketed tag. *)
C9_GroupOnlyLinesDropped ==
    op # "none" =>
        /\ out = Extracted(PayloadWithout(OnlyGroups, list))
        /\ op = "getUnsynced" =>
              \A k \in 1..Len(out.lines) : ~OneGroup(out.lines[k].text)

(* the positions of the requests of a kind *)
RequestsOf(kind) == {k \in 1..Len(requests) : requests[k].kind = kind}

(* C10: findLyrics sends the search request once and the lyric request at
   most once, the latter only after search returned an accepted song and
   for the id of that song; when the search request fails or no song is
   accepted there is no lyric request, and findLyrics rejects. *)
C10_RequestsOfFindLyrics ==
    /\ Cardinality(RequestsOf("search")) = (IF pc = "idle" THEN 0 ELSE 1)
    /\ Cardinality(RequestsOf("lyric")) <= 1
    /\ RequestsOf("lyric") # {} =>
          /\ RequestsOf("search") = {1} /\ RequestsOf("lyric") = {2}
          /\ resp = "songs"
          /\ pc \in {"fetching", "resolved", "rejected"}
          /\ pc = "fetching" => (requests[2].id = song.id /\ Accepted(info, song))
    /\ (resp \in {"failed", "no songs"} \/ error = "Cannot find track") =>
          (RequestsOf("lyric") = {} /\ pc = "rejected")
    /\ pc = "rejected" <=> error # "none"
    /\ pc = "resolved" => Cardinality(RequestsOf("lyric")) = 1

(* C10, its case: the lyric request is out, for a song that is not the
   first of the response *)
C10_Witness ==
    /\ pc = "fetching"
    /\ song.id = 2
    /\ requests[2] = [kind |-> "lyric", id |-> 2]

====
